---- MODULE Spec2Model ----
(***************************************************************************)
(* A model of pytermgui's parser (src/pytermgui/parser.py): the ANSI and   *)
(* markup tokenizers, the two converters and the ANSI optimizer; and of    *)
(* its animator (src/pytermgui/animator.py).                               *)
(*                                                                         *)
(* Strings are sequences of characters; a character is a one-character    *)
(* TLA+ string, except the escape character 0x1b which is written "ESC".   *)
(* Offsets (position, start, end) are Python's 0-based offsets.            *)
(* An optional value is a sequence of length 0 (None) or 1 (the value).    *)
(* A function that can raise returns [raised, value]: raised is "None" or  *)
(* the name of the exception, and value is only meaningful when it is     *)
(* "None".  A generator returns [raised, tokens]: the tokens it yielded    *)
(* before it finished or raised.                                           *)
(***************************************************************************)
EXTENDS Integers, Sequences, FiniteSets, TLC

VARIABLES
    text,     \* the string handed to the function under test
    pieces,   \* how many pieces the caller has concatenated into text
    pc,       \* "input" while the string is composed, "done" after the call
    op,       \* the function that was called ("none" before the call)
    flags,    \* the keyword arguments of the call
    first,    \* the result of the first call, when a second call follows it
    result,   \* what the last call returned or raised
    _animations,  \* Animator._animations: the tracked animations, in order
    attrs,    \* the animated attribute of every widget
    added,    \* how many times Animator.animate was called
    calls     \* the last operation on the animator and the calls it made

parserVars == <<text, pieces, pc, op, flags, first, result>>

animatorVars == <<_animations, attrs, added, calls>>

vars == <<text, pieces, pc, op, flags, first, result,
          _animations, attrs, added, calls>>

----------------------------------------------------------------------------
(* Python built-ins used by the parser                                     *)

None == <<>>

Some(x) == <<x>>

ESC == "ESC"

Digit == {"0", "1", "2", "3", "4", "5", "6", "7", "8", "9"}

\* s[a:b] for 0 <= a <= b <= len(s)
Slice(s, a, b) == SubSeq(s, a + 1, b)

startswith(s, p) == Len(p) <= Len(s) /\ SubSeq(s, 1, Len(p)) = p

endswith(s, p) == Len(p) <= Len(s) /\ SubSeq(s, Len(s) - Len(p) + 1, Len(s)) = p

\* str.isdigit / str.isnumeric on the ASCII strings of the model
isdigit(s) == Len(s) > 0 /\ \A i \in 1..Len(s) : s[i] \in Digit

DigitVal(c) ==
    CASE c = "0" -> 0 [] c = "1" -> 1 [] c = "2" -> 2 [] c = "3" -> 3
      [] c = "4" -> 4 [] c = "5" -> 5 [] c = "6" -> 6 [] c = "7" -> 7
      [] c = "8" -> 8 [] c = "9" -> 9

DigitChar(n) == <<"0", "1", "2", "3", "4", "5", "6", "7", "8", "9">>[n + 1]

RECURSIVE int(_)
int(s) == IF s = <<>> THEN 0
          ELSE 10 * int(SubSeq(s, 1, Len(s) - 1)) + DigitVal(s[Len(s)])

RECURSIVE str(_)
str(n) == IF n < 10 THEN <<DigitChar(n)>>
          ELSE str(n \div 10) \o <<DigitChar(n % 10)>>

\* the least element of a non-empty set of integers
Least(S) == CHOOSE j \in S : \A k \in S : j <= k

\* str.find(c, from): the 0-based offset of the first c at or after from, or -1
RECURSIVE find(_, _, _)
find(s, c, from) ==
    IF from >= Len(s) THEN -1
    ELSE IF s[from + 1] = c THEN from
    ELSE find(s, c, from + 1)

\* sep.join(parts)
RECURSIVE join(_, _)
join(parts, sep) ==
    IF parts = <<>> THEN <<>>
    ELSE IF Len(parts) = 1 THEN parts[1]
    ELSE parts[1] \o sep \o join(Tail(parts), sep)

\* s.split(c) for a one-character separator: empty parts are kept
RECURSIVE split(_, _)
SplitAt(s, c, j) ==
    IF j = -1 THEN <<s>>
    ELSE <<Slice(s, 0, j)>> \o split(Slice(s, j + 1, Len(s)), c)

split(s, c) == SplitAt(s, c, find(s, c, 0))

\* s.split(): split on runs of whitespace, no empty parts
RECURSIVE split_ws(_)
SplitWsAt(s, j) ==
    IF j = -1 THEN <<s>>
    ELSE <<Slice(s, 0, j)>> \o split_ws(Slice(s, j, Len(s)))

split_ws(s) ==
    IF s = <<>> THEN <<>>
    ELSE IF s[1] = " " THEN split_ws(Tail(s))
    ELSE SplitWsAt(s, find(s, " ", 0))

\* s.replace(c, new, 1): the first occurrence of the character c only
ReplaceAt(s, j, new) ==
    IF j = -1 THEN s
    ELSE Slice(s, 0, j) \o new \o Slice(s, j + 1, Len(s))

replace_first(s, c, new) == ReplaceAt(s, find(s, c, 0), new)

\* s.lstrip(c)
RECURSIVE lstrip(_, _)
lstrip(s, c) == IF s # <<>> /\ s[1] = c THEN lstrip(Tail(s), c) ELSE s

\* x in list
InSeq(x, list) == \E i \in 1..Len(list) : list[i] = x

\* list.index(x), 0-based, for x in list
index(list, x) == Least({i \in 1..Len(list) : list[i] = x}) - 1

----------------------------------------------------------------------------
(* The escape table                                                        *)

NAMES == <<
    <<"/">>,
    <<"b", "o", "l", "d">>,
    <<"d", "i", "m">>,
    <<"i", "t", "a", "l", "i", "c">>,
    <<"u", "n", "d", "e", "r", "l", "i", "n", "e">>,
    <<"b", "l", "i", "n", "k">>,
    <<"b", "l", "i", "n", "k", "2">>,
    <<"i", "n", "v", "e", "r", "s", "e">>,
    <<"i", "n", "v", "i", "s", "i", "b", "l", "e">>,
    <<"s", "t", "r", "i", "k", "e", "t", "h", "r", "o", "u", "g", "h">> >>

\* the dict in insertion order, as (key, value) items
UNSET_MAP == <<
    [key |-> <<"/">> \o NAMES[2], value |-> <<"2", "2">>],
    [key |-> <<"/">> \o NAMES[3], value |-> <<"2", "2">>],
    [key |-> <<"/">> \o NAMES[4], value |-> <<"2", "3">>],
    [key |-> <<"/">> \o NAMES[5], value |-> <<"2", "4">>],
    [key |-> <<"/">> \o NAMES[6], value |-> <<"2", "5">>],
    [key |-> <<"/">> \o NAMES[7], value |-> <<"2", "6">>],
    [key |-> <<"/">> \o NAMES[8], value |-> <<"2", "7">>],
    [key |-> <<"/">> \o NAMES[9], value |-> <<"2", "8">>],
    [key |-> <<"/">> \o NAMES[10], value |-> <<"2", "9">>],
    [key |-> <<"/", "f", "g">>, value |-> <<"3", "9">>],
    [key |-> <<"/", "b", "g">>, value |-> <<"4", "9">>] >>

\* key in UNSET_MAP
InUnsetKeys(k) == \E i \in 1..Len(UNSET_MAP) : UNSET_MAP[i].key = k

\* value in UNSET_MAP.values()
InUnsetValues(v) == \E i \in 1..Len(UNSET_MAP) : UNSET_MAP[i].value = v

\* UNSET_MAP[k] for a key k
UnsetValue(k) ==
    UNSET_MAP[Least({i \in 1..Len(UNSET_MAP) : UNSET_MAP[i].key = k})].value

\* the first key whose value is v (the loop of to_name)
UnsetKeyOf(v) ==
    UNSET_MAP[Least({i \in 1..Len(UNSET_MAP) : UNSET_MAP[i].value = v})].key

\* ansi_interface.reset(): the universal reset sequence
reset == <<ESC, "[", "0", "m">>

\* ansi_interface.foreground.names: the named colors, as (name, value) items
foreground_names == <<
    [name |-> <<"b", "l", "a", "c", "k">>, value |-> 0],
    [name |-> <<"r", "e", "d">>, value |-> 1],
    [name |-> <<"g", "r", "e", "e", "n">>, value |-> 2],
    [name |-> <<"y", "e", "l", "l", "o", "w">>, value |-> 3],
    [name |-> <<"b", "l", "u", "e">>, value |-> 4],
    [name |-> <<"m", "a", "g", "e", "n", "t", "a">>, value |-> 5],
    [name |-> <<"c", "y", "a", "n">>, value |-> 6],
    [name |-> <<"w", "h", "i", "t", "e">>, value |-> 7] >>

InColorNames(n) == \E i \in 1..Len(foreground_names) : foreground_names[i].name = n

InColorValues(v) == \E i \in 1..Len(foreground_names) : foreground_names[i].value = v

ColorValue(n) ==
    foreground_names[Least({i \in 1..Len(foreground_names) :
                                foreground_names[i].name = n})].value

ColorNameOf(v) ==
    foreground_names[Least({i \in 1..Len(foreground_names) :
                                foreground_names[i].value = v})].name

----------------------------------------------------------------------------
\* RE_ANSI: ESC "[" then the fewest characters up to an "m" (group sgr), or
\* ESC "]" then the fewest characters up to ESC "\" (the second group).
\* The strings of the model hold no newline, the one character "." refuses.

\* the offset of the first ESC "\" at or after from, or -1
RECURSIVE find_st(_, _)
find_st(s, from) ==
    IF from + 1 >= Len(s) THEN -1
    ELSE IF s[from + 1] = ESC /\ s[from + 2] = "\\" THEN from
    ELSE find_st(s, from + 1)

\* the match that starts at offset i with ESC "[" and ends with the "m" at j
SgrMatch(s, i, j) ==
    IF j = -1 THEN None
    ELSE Some([start |-> i, end |-> j + 1,
               sgr |-> Some(Slice(s, i + 2, j)), osc |-> None])

\* the match that starts at offset i with ESC "]" and ends with the ESC "\" at j
OscMatch(s, i, j) ==
    IF j = -1 THEN None
    ELSE Some([start |-> i, end |-> j + 2, sgr |-> None,
               osc |-> Some(Slice(s, i + 2, j))])

\* the match of RE_ANSI that starts at offset i, if there is one
RE_ANSI_at(s, i) ==
    IF i + 1 < Len(s) /\ s[i + 1] = ESC /\ s[i + 2] = "["
    THEN SgrMatch(s, i, find(s, "m", i + 2))
    ELSE IF i + 1 < Len(s) /\ s[i + 1] = ESC /\ s[i + 2] = "]"
    THEN OscMatch(s, i, find_st(s, i + 2))
    ELSE None

\* the next match of RE_ANSI.finditer at or after offset from
RECURSIVE RE_ANSI_search(_, _)
RE_ANSI_from(s, from, here) ==
    IF here # None THEN here ELSE RE_ANSI_search(s, from + 1)

RE_ANSI_search(s, from) ==
    IF from >= Len(s) THEN None ELSE RE_ANSI_from(s, from, RE_ANSI_at(s, from))

----------------------------------------------------------------------------
(* The token model                                                         *)

Token(start, end, plain, code, attribute) ==
    [start |-> start, end |-> end, plain |-> plain, code |-> code,
     attribute |-> attribute]

Ok(v) == [raised |-> "None", value |-> v]

Raise(e) == [raised |-> e, value |-> <<>>]

\* Token.to_name for a code that is all digits
StyleName(code) ==
    IF InUnsetValues(code) THEN Ok(UnsetKeyOf(code))
    ELSE IF int(code) < Len(NAMES) THEN Ok(NAMES[int(code) + 1])
    ELSE Raise("IndexError")

\* Token.to_name for a code that is not all digits: numbers = code.split(";")
ColorName(numbers) ==
    IF Len(numbers) < 3 THEN Raise("SyntaxError")
    ELSE IF ~ \A i \in 1..Len(numbers) : isdigit(numbers[i])
         THEN Raise("SyntaxError")
    ELSE Ok((IF numbers[1] = <<"4", "8">> THEN <<"@">> ELSE <<>>)
            \o (IF Len(numbers) = 3 /\ InColorValues(int(numbers[3]))
                THEN ColorNameOf(int(numbers[3]))
                ELSE join(SubSeq(numbers, 3, Len(numbers)), <<";">>)))

\* Token.to_name
to_name(token) ==
    IF token.plain # None THEN Ok(token.plain[1])
    ELSE IF isdigit(token.code[1]) THEN StyleName(token.code[1])
    ELSE ColorName(split(token.code[1], ";"))

\* Token.to_sequence
to_sequence(token) ==
    IF token.code = None THEN token.plain[1]
    ELSE <<ESC, "[">> \o token.code[1] \o <<"m">>

\* UNSET_MAP[name], or the KeyError of a name that is no key
UnsetLookup(name) ==
    IF InUnsetKeys(name) THEN Ok(Some(UnsetValue(name))) ELSE Raise("KeyError")

\* Token.get_unsetter of a CLEAR token: name is what to_name returned or raised
UnsetterOfClear(name) ==
    IF name.raised # "None" THEN Raise(name.raised) ELSE UnsetLookup(name.value)

\* Token.get_unsetter of a token without attribute, or of a STYLE token
UnsetterOfStyle(name) ==
    IF name.raised # "None" THEN Raise(name.raised)
    ELSE UnsetLookup(<<"/">> \o name.value)

\* Token.get_unsetter
get_unsetter(token) ==
    IF token.plain # None THEN Ok(None)
    ELSE IF token.attribute = "CLEAR" THEN UnsetterOfClear(to_name(token))
    ELSE IF token.attribute = "COLOR" THEN UnsetLookup(<<"/", "f", "g">>)
    ELSE IF token.attribute = "BACKGROUND_COLOR"
    THEN UnsetLookup(<<"/", "b", "g">>)
    ELSE UnsetterOfStyle(to_name(token))

\* Token.get_setter after the early returns: name is what to_name returned
SetterOfName(name) ==
    IF name.raised # "None" THEN Raise(name.raised)
    ELSE IF name.value \in {<<"/", "f", "g">>, <<"/", "b", "g">>} THEN Ok(None)
    ELSE IF ~ InSeq(Tail(name.value), NAMES) THEN Raise("ValueError")
    ELSE Ok(Some(str(index(NAMES, Tail(name.value)))))

\* Token.get_setter
get_setter(token) ==
    IF token.plain # None \/ token.attribute # "CLEAR" THEN Ok(None)
    ELSE IF token.code = Some(<<"0">>) THEN Ok(None)
    ELSE SetterOfName(to_name(token))

----------------------------------------------------------------------------
(* tokenize_ansi                                                           *)

\* the attribute tokenize_ansi gives to an SGR payload
AnsiAttribute(sgr) ==
    IF startswith(sgr, <<"3", "8", ";">>) THEN "COLOR"
    ELSE IF startswith(sgr, <<"4", "8", ";">>) THEN "BACKGROUND_COLOR"
    ELSE IF sgr = <<"0">> THEN "CLEAR"
    ELSE IF isdigit(sgr) /\ int(sgr) < Len(NAMES) THEN "STYLE"
    ELSE IF InUnsetValues(sgr) THEN "CLEAR"
    ELSE "None"

\* a tokenizer that yields every code token
AnsiYields_always(previous, sgr) == TRUE

\* whether the code token is yielded, given the last yielded token
AnsiYields(previous, sgr) == previous = None \/ previous[1].code # Some(sgr)

\* the plain token of the text before a match, or after the last one
PlainToken(s, position, upto, start, end) ==
    Token(start, end, Some(Slice(s, position, upto)), None, "None")

\* the code token of a match
CodeToken(match, sgr) ==
    Token(match.start, match.end, None, Some(sgr), AnsiAttribute(sgr))

RECURSIVE tokenize_ansi_loop(_, _, _, _, _, _)
\* the body of the loop after "add plain text between last and current sequence"
AnsiCode(s, match, previous, out) ==
    IF match.sgr = None
    THEN \* sgr is None for the second alternative: sgr.startswith raises
         [raised |-> "AttributeError", tokens |-> out]
    ELSE IF AnsiYields(previous, match.sgr[1])
    THEN tokenize_ansi_loop(s, match.end, match.start, match.end,
             Some(CodeToken(match, match.sgr[1])),
             Append(out, CodeToken(match, match.sgr[1])))
    ELSE tokenize_ansi_loop(s, match.end, match.start, match.end, previous, out)

\* one round of the loop over the matches, found being the next match
AnsiStep(s, position, start, end, previous, out, found) ==
    IF found = None
    THEN [raised |-> "None",
          tokens |-> IF position < Len(s)
                     THEN Append(out, PlainToken(s, position, Len(s), start, end))
                     ELSE out]
    ELSE IF found[1].start > position
    THEN AnsiCode(s, found[1],
             Some(PlainToken(s, position, found[1].start, found[1].start,
                             found[1].end)),
             Append(out, PlainToken(s, position, found[1].start, found[1].start,
                                    found[1].end)))
    ELSE AnsiCode(s, found[1], previous, out)

tokenize_ansi_loop(s, position, start, end, previous, out) ==
    AnsiStep(s, position, start, end, previous, out, RE_ANSI_search(s, position))

tokenize_ansi(s) == tokenize_ansi_loop(s, 0, 0, 0, None, <<>>)

----------------------------------------------------------------------------
(* optimize_ansi                                                           *)

\* an optimizer that emits every universal reset
OptimizeReset_always(out, sequence) == out \o reset

\* an optimizer whose output starts again at a universal reset
OptimizeReset_restarts(out, sequence) == <<>>

\* what optimize_ansi does with the pending sequence at a universal reset
OptimizeReset(out, sequence) == IF Len(sequence) > 0 THEN out \o reset ELSE out

RECURSIVE optimize_ansi_loop(_, _, _, _, _)
optimize_ansi_loop(tokens, i, out, sequence, previous_sequence) ==
    IF i > Len(tokens) THEN out
    ELSE IF tokens[i].code # None
    THEN IF tokens[i].code[1] = <<"0">>
         THEN optimize_ansi_loop(tokens, i + 1, OptimizeReset(out, sequence),
                                 <<>>, previous_sequence)
         ELSE optimize_ansi_loop(tokens, i + 1, out,
                                 sequence \o to_sequence(tokens[i]),
                                 previous_sequence)
    ELSE IF previous_sequence # Some(sequence)
    THEN optimize_ansi_loop(tokens, i + 1, out \o sequence \o tokens[i].plain[1],
                            <<>>, Some(sequence))
    ELSE optimize_ansi_loop(tokens, i + 1, out \o tokens[i].plain[1],
                            <<>>, previous_sequence)

\* the end of optimize_ansi: the output ends with a reset
OptimizeEnd(out) == IF ~ endswith(out, reset) THEN out \o reset ELSE out

\* optimize_ansi, given what tokenize_ansi yields
OptimizeTokens(lexed) ==
    IF lexed.raised # "None" THEN Raise(lexed.raised)
    ELSE Ok(OptimizeEnd(optimize_ansi_loop(lexed.tokens, 1, <<>>, <<>>, None)))

optimize_ansi(ansi) == OptimizeTokens(tokenize_ansi(ansi))

----------------------------------------------------------------------------
\* RE_TAGS: any backslashes, "[", one character of [a-z0-9!#@/], then the
\* fewest characters up to a "]"

LowerCase == {"a", "b", "c", "d", "e", "f", "g", "h", "i", "j", "k", "l", "m",
              "n", "o", "p", "q", "r", "s", "t", "u", "v", "w", "x", "y", "z"}

\* the class [a-z0-9!#@\/] of the first character of a bracket
TagStart == LowerCase \cup Digit \cup {"!", "#", "@", "/"}

\* the offset of the first character at or after i that is not a backslash
RECURSIVE SkipBackslashes(_, _)
SkipBackslashes(s, i) ==
    IF i < Len(s) /\ s[i + 1] = "\\" THEN SkipBackslashes(s, i + 1) ELSE i

\* the match that starts at offset i, with its "[" at offset b and "]" at j
TagMatch(s, i, b, j) ==
    IF j = -1 THEN None
    ELSE Some([start |-> i, end |-> j + 1, full |-> Slice(s, i, j + 1),
               escapes |-> Slice(s, i, b), tag_text |-> Slice(s, b + 1, j)])

\* the match that starts at offset i, the backslashes ending before offset b
TagAfterEscapes(s, i, b) ==
    IF b + 1 < Len(s) /\ s[b + 1] = "[" /\ s[b + 2] \in TagStart
    THEN TagMatch(s, i, b, find(s, "]", b + 2))
    ELSE None

\* the match of RE_TAGS that starts at offset i, if there is one
RE_TAGS_at(s, i) == TagAfterEscapes(s, i, SkipBackslashes(s, i))

\* the next match of RE_TAGS.finditer at or after offset from
RECURSIVE RE_TAGS_search(_, _)
RE_TAGS_from(s, from, here) ==
    IF here # None THEN here ELSE RE_TAGS_search(s, from + 1)

RE_TAGS_search(s, from) ==
    IF from >= Len(s) THEN None ELSE RE_TAGS_from(s, from, RE_TAGS_at(s, from))

----------------------------------------------------------------------------
(* The color resolver                                                      *)

HexLetter == {"a", "b", "c", "d", "e", "f"}

HexVal(c) ==
    CASE c \in Digit -> DigitVal(c)
      [] c = "a" -> 10 [] c = "b" -> 11 [] c = "c" -> 12
      [] c = "d" -> 13 [] c = "e" -> 14 [] c = "f" -> 15

\* ansi_interface.foreground.translate_hex: "#RRGGBB" to the three bytes,
\* ValueError on anything else
translate_hex(tag) ==
    IF Len(tag) = 7 /\ tag[1] = "#"
       /\ \A i \in 2..7 : tag[i] \in Digit \cup HexLetter
    THEN Ok(<<16 * HexVal(tag[2]) + HexVal(tag[3]),
              16 * HexVal(tag[4]) + HexVal(tag[5]),
              16 * HexVal(tag[6]) + HexVal(tag[7])>>)
    ELSE Raise("ValueError")

\* the characters a color tag may be made of (char.isdigit() or
\* char.lower() in "#;@abcdef")
ColorChar == Digit \cup HexLetter \cup {"#", ";", "@"}

\* tag.count(c)
count(s, c) == Cardinality({i \in 1..Len(s) : s[i] = c})

\* the code of a hex color, rgb being what translate_hex returned or raised
HexColor(pretext, rgb) ==
    IF rgb.raised # "None" THEN Raise("SyntaxError")
    ELSE Ok(Some([code |-> pretext \o <<"2", ";">>
                      \o join(<<str(rgb.value[1]), str(rgb.value[2]),
                                str(rgb.value[3])>>, <<";">>),
                  background |-> pretext = <<"4", "8", ";">>]))

\* _handle_color after "convert into background color"
ColorCode(pretext, tag) ==
    IF startswith(tag, <<"#">>) THEN HexColor(pretext, translate_hex(tag))
    ELSE Ok(Some([code |-> pretext
                      \o (IF count(tag, ";") < 2 THEN <<"5", ";">>
                          ELSE <<"2", ";">>)
                      \o tag,
                  background |-> pretext = <<"4", "8", ";">>]))

\* _handle_color: Ok(None), Ok(Some([code, background])) or SyntaxError
_handle_color(tag) ==
    IF ~ \A i \in 1..Len(tag) : tag[i] \in ColorChar THEN Ok(None)
    ELSE IF startswith(tag, <<"@">>) THEN ColorCode(<<"4", "8", ";">>, Tail(tag))
    ELSE ColorCode(<<"3", "8", ";">>, tag)

\* foreground.names[tag] and the call of _handle_color on it
NamedColorCode(background, tag) ==
    IF ~ InColorNames(tag) THEN Raise("KeyError")
    ELSE _handle_color(background \o str(ColorValue(tag)))

\* _handle_named_color: as _handle_color, or KeyError from foreground.names[tag]
_handle_named_color(tag) ==
    IF ~ InColorNames(lstrip(tag, "@")) THEN Ok(None)
    ELSE IF startswith(tag, <<"@">>) THEN NamedColorCode(<<"@">>, Tail(tag))
    ELSE NamedColorCode(<<>>, tag)

----------------------------------------------------------------------------
(* tokenize_markup                                                         *)

\* the token of a resolved color tag
ColorToken(start, end, data) ==
    Token(start, end, None, Some(data.code),
          IF data.background THEN "BACKGROUND_COLOR" ELSE "COLOR")

\* the token of a tag, data being what a color resolver returned
ColorResult(start, end, data) ==
    IF data.raised # "None" THEN Raise(data.raised)
    ELSE Ok(ColorToken(start, end, data.value[1]))

\* the last branch of the tag loop: color is what _handle_color returned
NumericColorTag(start, end, color) ==
    IF color.raised = "None" /\ color.value = None THEN Raise("SyntaxError")
    ELSE ColorResult(start, end, color)

\* the color branch of the tag loop: named is what _handle_named_color returned
NamedColorTag(start, end, tag, named) ==
    IF named.raised = "None" /\ named.value = None
    THEN NumericColorTag(start, end, _handle_color(tag))
    ELSE ColorResult(start, end, named)

\* the token of one tag of an unescaped bracket, or the exception it raises
MarkupTagToken(start, end, tag) ==
    IF InSeq(tag, NAMES)
    THEN Ok(Token(start, end, None, Some(str(index(NAMES, tag))),
                  IF tag = <<"/">> THEN "CLEAR" ELSE "STYLE"))
    ELSE IF InUnsetKeys(tag)
    THEN Ok(Token(start, end, None, Some(UnsetValue(tag)), "CLEAR"))
    ELSE NamedColorTag(start, end, tag, _handle_named_color(tag))

\* the inner loop over tag_text.split(): the tokens yielded, and the exception
RECURSIVE MarkupTags(_, _, _, _)
MarkupTagsGot(start, end, tags, out, got) ==
    IF got.raised # "None" THEN [raised |-> got.raised, tokens |-> out]
    ELSE MarkupTags(start, end, Tail(tags), Append(out, got.value))

MarkupTags(start, end, tags, out) ==
    IF tags = <<>> THEN [raised |-> "None", tokens |-> out]
    ELSE MarkupTagsGot(start, end, tags, out, MarkupTagToken(start, end, tags[1]))

\* an escaped bracket that keeps its backslashes
EscapedToken_keeps(match) ==
    Token(match.start, match.end, Some(match.full), None, "ESCAPED")

\* the token of an escaped bracket
EscapedToken(match) ==
    Token(match.start, match.end,
          Some(Slice(match.full, Len(match.escapes), Len(match.full))),
          None, "ESCAPED")

RECURSIVE tokenize_markup_loop(_, _, _, _, _)
\* the loop goes on after an unescaped bracket unless one of its tags raised
MarkupAfterTags(s, match, tags) ==
    IF tags.raised # "None" THEN tags
    ELSE tokenize_markup_loop(s, match.end, match.start, match.end, tags.tokens)

\* the body of the loop after the plain text before the match was yielded
MarkupBracket(s, match, out) ==
    IF match.escapes # <<>>
    THEN tokenize_markup_loop(s, match.end, match.start, match.end,
                              Append(out, EscapedToken(match)))
    ELSE MarkupAfterTags(s, match,
             MarkupTags(match.start, match.end, split_ws(match.tag_text), out))

\* one round of the loop over the matches, found being the next match
MarkupStep(s, position, start, end, out, found) ==
    IF found = None
    THEN [raised |-> "None",
          tokens |-> IF position < Len(s)
                     THEN Append(out, PlainToken(s, position, Len(s), start, end))
                     ELSE out]
    ELSE IF found[1].start > position
    THEN MarkupBracket(s, found[1],
             Append(out, PlainToken(s, position, found[1].start, found[1].start,
                                    found[1].end)))
    ELSE MarkupBracket(s, found[1], out)

tokenize_markup_loop(s, position, start, end, out) ==
    MarkupStep(s, position, start, end, out, RE_TAGS_search(s, position))

tokenize_markup(s) == tokenize_markup_loop(s, 0, 0, 0, <<>>)

----------------------------------------------------------------------------
(* markup_to_ansi and ansi_to_markup                                       *)

RECURSIVE SequencesOf(_)
SequencesOf(tokens) ==
    IF tokens = <<>> THEN <<>>
    ELSE to_sequence(tokens[1]) \o SequencesOf(Tail(tokens))

\* a converter that never appends the reset
EnsureReset_never(ensure_reset, s) == s

\* the ensure_reset step of both converters
EnsureReset(ensure_reset, s) ==
    IF ensure_reset /\ ~ endswith(s, reset) THEN s \o reset ELSE s

\* markup_to_ansi, given what tokenize_markup yields
MarkupTokensToAnsi(lexed, ensure_reset, ensure_optimized) ==
    IF lexed.raised # "None" THEN Raise(lexed.raised)
    ELSE IF ensure_optimized
    THEN optimize_ansi(EnsureReset(ensure_reset, SequencesOf(lexed.tokens)))
    ELSE Ok(EnsureReset(ensure_reset, SequencesOf(lexed.tokens)))

markup_to_ansi(markup, ensure_reset, ensure_optimized) ==
    MarkupTokensToAnsi(tokenize_markup(markup), ensure_reset, ensure_optimized)

\* a converter that writes one bracket for each name
Bracket_each(current_bracket) ==
    <<"[">> \o join(current_bracket, <<"]", "[">>) \o <<"]">>

\* "[" + " ".join(current_bracket) + "]"
Bracket(current_bracket) == <<"[">> \o join(current_bracket, <<" ">>) \o <<"]">>

\* a reset that starts no closing bracket
BracketAfterReset_empty(markup) == <<>>

\* the bracket ansi_to_markup starts at a universal reset
BracketAfterReset(markup) == IF Len(markup) > 0 THEN <<<<"/">>>> ELSE <<>>

\* the markup after the pending bracket is closed before a plain token
CloseBracket(markup, in_attr, current_bracket) ==
    IF in_attr /\ Len(current_bracket) > 0
    THEN markup \o Bracket(current_bracket) ELSE markup

RECURSIVE ansi_to_markup_loop(_, _, _, _, _)
\* a code token other than the reset: name is what to_name returned or raised
AnsiToMarkupCode(tokens, i, markup, current_bracket, name) ==
    IF name.raised # "None" THEN Raise(name.raised)
    ELSE ansi_to_markup_loop(tokens, i + 1, markup, TRUE,
                             Append(current_bracket, name.value))

ansi_to_markup_loop(tokens, i, markup, in_attr, current_bracket) ==
    IF i > Len(tokens)
    THEN Ok(IF Len(current_bracket) > 0 THEN markup \o Bracket(current_bracket)
            ELSE markup)
    ELSE IF tokens[i].code # None
    THEN IF tokens[i].code[1] = <<"0">>
         THEN ansi_to_markup_loop(tokens, i + 1, markup, TRUE,
                                  BracketAfterReset(markup))
         ELSE AnsiToMarkupCode(tokens, i, markup, current_bracket,
                               to_name(tokens[i]))
    ELSE ansi_to_markup_loop(tokens, i + 1,
             CloseBracket(markup, in_attr, current_bracket)
                 \o replace_first(tokens[i].plain[1], "[", <<"\\", "[">>),
             in_attr, <<>>)

\* the result of ansi_to_markup: the loop runs on the tokens yielded before
\* the tokenizer raised, and its own exception comes first
AnsiToMarkupEnd(raised, looped) ==
    IF looped.raised # "None" THEN looped
    ELSE IF raised # "None" THEN Raise(raised)
    ELSE looped

\* ansi_to_markup, given what tokenize_ansi yields
AnsiTokensToMarkup(lexed) ==
    AnsiToMarkupEnd(lexed.raised,
                    ansi_to_markup_loop(lexed.tokens, 1, <<>>, FALSE, <<>>))

ansi_to_markup(ansi, ensure_reset) ==
    AnsiTokensToMarkup(tokenize_ansi(EnsureReset(ensure_reset, ansi)))

----------------------------------------------------------------------------
(* Animation and Animator                                                  *)
(*                                                                         *)
(* Time is counted in ticks.  An animation carries the ticks elapsed since *)
(* it was made (time.time() - start_time) instead of its start_time; the   *)
(* count stops at MaxDuration, from where on min(1.0, factor) is 1.0 for   *)
(* every duration.  A callback is "None" or "cb"; the calls a step makes   *)
(* are kept in calls.                                                      *)

MaxAnimate == 2

MaxDuration == 2

MaxValue == 1

Widgets == {"w1", "w2"}

\* the step and finish callbacks of an animation: each is set or None
Callbacks == {"None", "cb"} \X {"None", "cb"}

\* Animation(...): start defaults to the attribute of the target
Animation(id, target, attribute, end, duration, callbacks, start) ==
    [id |-> id, target |-> target, end |-> end, duration |-> duration,
     callbacks |-> callbacks,
     start |-> IF start = None THEN attribute ELSE start[1],
     elapsed |-> 0]

\* min(1.0, self._get_factor()), times the duration
_get_factor(a) == IF a.elapsed < a.duration THEN a.elapsed ELSE a.duration

\* an animation on which time has no effect
StepValue_frozen(a) == a.start

\* int(self.start + (self.end - self.start) * factor)
StepValue(a) ==
    (a.start * a.duration + (a.end - a.start) * _get_factor(a)) \div a.duration

\* Animation.step: the value it sets, whether it calls the step callback,
\* and what it returns
Animation_step(a) ==
    IF a.duration = 0
    THEN [value |-> a.end, called |-> FALSE, finished |-> TRUE]
    ELSE [value |-> StepValue(a), called |-> a.callbacks[1] # "None",
          finished |-> StepValue(a) = a.end]

\* the dataclass equality of two animations: the fields, not start_time
AnimationEq(a, b) ==
    /\ a.target = b.target
    /\ a.end = b.end
    /\ a.duration = b.duration
    /\ a.callbacks = b.callbacks
    /\ a.start = b.start

\* list.remove(a): the list without its first item equal to a
RemoveAt(list, k) == SubSeq(list, 1, k - 1) \o SubSeq(list, k + 1, Len(list))

remove(list, a) ==
    RemoveAt(list, Least({k \in 1..Len(list) : AnimationEq(list[k], a)}))

\* the calls of an operation that calls nothing
NoCalls(name) ==
    [op |-> name, tracked |-> <<>>, stepped |-> <<>>, step_callback |-> <<>>,
     finished |-> <<>>, finish_callback |-> <<>>]

\* the call of a callback of animation a with its target, whose attribute
\* has the given value at that moment
CallbackCall(a, value) == [id |-> a.id, target |-> a.target, value |-> value]

\* the calls after animation a was stepped with outcome r
StepCalls(log, a, r) ==
    [log EXCEPT
        !.stepped = Append(@, a.id),
        !.step_callback = IF r.called THEN Append(@, CallbackCall(a, r.value))
                          ELSE @,
        !.finished = IF r.finished THEN Append(@, a.id) ELSE @,
        !.finish_callback =
            IF r.finished /\ a.callbacks[2] # "None"
            THEN Append(@, CallbackCall(a, r.value)) ELSE @]

\* the loop of Animator.step: the list iterator is at 0-based offset offset
RECURSIVE AnimatorLoop(_, _, _, _)
AnimatorStepped(list, offset, values, log, a, r) ==
    AnimatorLoop(IF r.finished THEN remove(list, a) ELSE list,
                 offset + 1,
                 [values EXCEPT ![a.target] = r.value],
                 StepCalls(log, a, r))

AnimatorLoop(list, offset, values, log) ==
    IF offset >= Len(list)
    THEN [animations |-> list, attrs |-> values, calls |-> log]
    ELSE AnimatorStepped(list, offset, values, log, list[offset + 1],
                         Animation_step(list[offset + 1]))

\* Animator.is_active
is_active == Len(_animations) > 0

----------------------------------------------------------------------------
(* The callers: a string is concatenated from pieces, then a function of   *)
(* the parser is called on it; some calls are followed by a second call on *)
(* the string the first one returned.                                      *)

MaxAnsiPieces == 4

MaxMarkupPieces == 4

SGR(code) == <<ESC, "[">> \o code \o <<"m">>

\* what a caller of the ANSI functions concatenates: SGR sequences (a style,
\* the universal reset, an unsetter, an 8-bit color), an
\* OSC-style sequence, text (a letter, an opening square bracket, a
\* backslash, a bracket group), and an SGR introducer with nothing after it
AnsiPieces == {
    SGR(<<"1">>), SGR(<<"0">>), SGR(<<"2", "2">>),
    SGR(<<"3", "8", ";", "5", ";", "1", "4", "1">>),
    <<ESC, "]", "8", ESC, "\\">>,
    <<"a">>, <<"[">>, <<"\\">>, <<"[">> \o NAMES[2] \o <<"]">>,
    <<ESC, "[">> }

\* what a caller of the markup functions concatenates: brackets (a style, the
\* universal closer, a style and a named color, an unknown word, hex letters,
\* a named color behind two "@", a style twice), text, a backslash
\* and a lone opening square bracket
MarkupPieces == {
    <<"[">> \o NAMES[2] \o <<"]">>,
    <<"[", "/", "]">>,
    <<"[">> \o NAMES[3] \o <<" ">> \o foreground_names[2].name \o <<"]">>,
    <<"[", "z", "z", "]">>,
    <<"[", "a", "b", "c", "]">>,
    <<"[", "@", "@">> \o foreground_names[2].name \o <<"]">>,
    <<"[">> \o NAMES[2] \o <<" ">> \o NAMES[2] \o <<"]">>,
    <<"a">>, <<"\\">>, <<"[">> }

NotCalled == [raised |-> "NotCalled"]

Flags(ensure_reset, ensure_optimized) ==
    [ensure_reset |-> ensure_reset, ensure_optimized |-> ensure_optimized]

Init ==
    /\ text = <<>>
    /\ pieces = 0
    /\ pc = "input"
    /\ op = "none"
    /\ flags = Flags(TRUE, TRUE)
    /\ first = NotCalled
    /\ result = NotCalled
    /\ _animations = <<>>
    /\ attrs = [w \in Widgets |-> 0]
    /\ added = 0
    /\ calls = NoCalls("none")

Concat(piece, max) ==
    /\ pc = "input"
    /\ pieces < max
    /\ text' = text \o piece
    /\ pieces' = pieces + 1
    /\ UNCHANGED <<pc, op, flags, first, result>>
    /\ UNCHANGED animatorVars

\* a first call: name is the function, f its keyword arguments, r its result
Call(name, f, r) ==
    /\ pc = "input"
    /\ pc' = "done"
    /\ op' = name
    /\ flags' = f
    /\ result' = r
    /\ UNCHANGED <<text, pieces, first>>
    /\ UNCHANGED animatorVars

\* a second call, on the string that the call named after returned
CallOnResult(after, name, r) ==
    /\ pc = "done"
    /\ op = after
    /\ result.raised = "None"
    /\ op' = name
    /\ first' = result
    /\ result' = r
    /\ UNCHANGED <<text, pieces, pc, flags>>
    /\ UNCHANGED animatorVars

ConcatAnsi == \E piece \in AnsiPieces : Concat(piece, MaxAnsiPieces)

Call_tokenize_ansi == Call("tokenize_ansi", Flags(TRUE, TRUE), tokenize_ansi(text))

Call_optimize_ansi == Call("optimize_ansi", Flags(TRUE, TRUE), optimize_ansi(text))

Call_optimize_ansi_again ==
    CallOnResult("optimize_ansi", "optimize_ansi(optimize_ansi)",
                 optimize_ansi(result.value))

Call_ansi_to_markup ==
    \E ensure_reset \in BOOLEAN :
        Call("ansi_to_markup", Flags(ensure_reset, TRUE),
             ansi_to_markup(text, ensure_reset))

ConcatMarkup == \E piece \in MarkupPieces : Concat(piece, MaxMarkupPieces)

Call_tokenize_markup ==
    Call("tokenize_markup", Flags(TRUE, TRUE), tokenize_markup(text))

Call_markup_to_ansi ==
    \E ensure_reset \in BOOLEAN, ensure_optimized \in BOOLEAN :
        Call("markup_to_ansi", Flags(ensure_reset, ensure_optimized),
             markup_to_ansi(text, ensure_reset, ensure_optimized))

Call_ansi_to_markup_back ==
    CallOnResult("markup_to_ansi", "ansi_to_markup(markup_to_ansi)",
                 ansi_to_markup(result.value, TRUE))

\* the markup that ansi_to_markup returned is tokenized again
Call_tokenize_markup_back ==
    CallOnResult("ansi_to_markup", "tokenize_markup(ansi_to_markup)",
                 tokenize_markup(result.value))

\* the markup that ansi_to_markup returned is converted back, unoptimized
Call_markup_to_ansi_back ==
    CallOnResult("ansi_to_markup", "markup_to_ansi(ansi_to_markup)",
                 markup_to_ansi(result.value, TRUE, FALSE))

\* the callers of the ANSI functions
Next ==
    \/ ConcatAnsi
    \/ Call_tokenize_ansi
    \/ Call_optimize_ansi
    \/ Call_optimize_ansi_again
    \/ Call_ansi_to_markup
    \/ Call_tokenize_markup_back
    \/ Call_markup_to_ansi_back

Spec == Init /\ [][Next]_vars

\* the bracket of one tag
TagBracket(tag) == <<"[">> \o tag \o <<"]">>

\* the tag of a bracket of one tag
TagOf(bracket) == Slice(bracket, 1, Len(bracket) - 1)

\* the token tokenize_markup yields for the unsetter tag of a style
UnsetToken(name) == tokenize_markup(TagBracket(<<"/">> \o name)).tokens[1]

\* get_unsetter of the token that tokenize_markup yields for a style tag
Call_get_unsetter ==
    \E i \in 1..(Len(NAMES) - 1) :
        /\ pc = "input"
        /\ pieces = 0
        /\ text' = TagBracket(NAMES[i + 1])
        /\ pieces' = 1
        /\ pc' = "done"
        /\ op' = "get_unsetter"
        /\ result' = get_unsetter(tokenize_markup(TagBracket(NAMES[i + 1])).tokens[1])
        /\ UNCHANGED <<flags, first>>
        /\ UNCHANGED animatorVars

\* get_setter of the token that tokenize_markup yields for the unsetter tag
Call_get_setter ==
    CallOnResult("get_unsetter", "get_setter(get_unsetter)",
                 get_setter(UnsetToken(TagOf(text))))

\* the callers of the markup functions
NextMarkup ==
    \/ ConcatMarkup
    \/ Call_tokenize_markup
    \/ Call_markup_to_ansi
    \/ Call_ansi_to_markup_back
    \/ Call_get_unsetter
    \/ Call_get_setter

SpecMarkup == Init /\ [][NextMarkup]_vars

----------------------------------------------------------------------------
(* The caller of the animator: it starts animations, time passes, and it   *)
(* calls Animator.step.                                                    *)

\* Animator.animate
animate ==
    \E widget \in Widgets, endpoint \in 0..MaxValue, duration \in 0..MaxDuration,
       startpoint \in {None, Some(0)}, callbacks \in Callbacks :
        /\ added < MaxAnimate
        /\ _animations' =
               Append(_animations,
                      Animation(added + 1, widget, attrs[widget], endpoint,
                                duration, callbacks, startpoint))
        /\ added' = added + 1
        /\ calls' = NoCalls("animate")
        /\ UNCHANGED attrs
        /\ UNCHANGED parserVars

\* time.time() advances by one tick
Tick ==
    /\ _animations' =
           [k \in 1..Len(_animations) |->
               [_animations[k] EXCEPT
                   !.elapsed = IF @ < MaxDuration THEN @ + 1 ELSE @]]
    /\ calls' = NoCalls("tick")
    /\ UNCHANGED <<attrs, added>>
    /\ UNCHANGED parserVars

\* Animator.step, stepped being what its loop leaves
AnimatorStepDone(stepped) ==
    /\ _animations' = stepped.animations
    /\ attrs' = stepped.attrs
    /\ calls' = stepped.calls
    /\ UNCHANGED added
    /\ UNCHANGED parserVars

Animator_step ==
    AnimatorStepDone(AnimatorLoop(_animations, 0, attrs,
                                  [NoCalls("step") EXCEPT !.tracked = _animations]))

NextAnimator ==
    \/ animate
    \/ Tick
    \/ Animator_step

SpecAnimator == Init /\ [][NextAnimator]_vars

\* Animator.step keeps being called and time keeps advancing
FairSpecAnimator ==
    Init /\ [][NextAnimator]_vars /\ WF_vars(Animator_step) /\ WF_vars(Tick)

----------------------------------------------------------------------------
(* What the claims speak of                                                *)

\* the characters of a syntactically valid SGR parameter string
SgrChar == Digit \cup {";"}

\* the matches of RE_ANSI.finditer(s) from offset from on, in order
RECURSIVE AnsiMatches(_, _)
AnsiMatchesFrom(s, found) ==
    IF found = None THEN <<>> ELSE <<found[1]>> \o AnsiMatches(s, found[1].end)

AnsiMatches(s, from) == AnsiMatchesFrom(s, RE_ANSI_search(s, from))

\* the matches of RE_TAGS.finditer(s) from offset from on, in order
RECURSIVE TagMatches(_, _)
TagMatchesFrom(s, found) ==
    IF found = None THEN <<>> ELSE <<found[1]>> \o TagMatches(s, found[1].end)

TagMatches(s, from) == TagMatchesFrom(s, RE_TAGS_search(s, from))

\* an ANSI string of SGR sequences and plain text: every code is made of
\* digits and ";" and no plain text holds an escape character
IsSgrText(lexed) ==
    /\ lexed.raised = "None"
    /\ \A i \in 1..Len(lexed.tokens) :
        /\ lexed.tokens[i].code # None =>
              \A k \in 1..Len(lexed.tokens[i].code[1]) :
                  lexed.tokens[i].code[1][k] \in SgrChar
        /\ lexed.tokens[i].plain # None =>
              \A k \in 1..Len(lexed.tokens[i].plain[1]) :
                  lexed.tokens[i].plain[1][k] # ESC

SgrText(s) == IsSgrText(tokenize_ansi(s))

\* the rendered appearance of a token sequence: each character of the plain
\* text with the set of codes applied since the most recent universal reset
RECURSIVE Rendered(_, _, _, _)
Rendered(tokens, i, active, out) ==
    IF i > Len(tokens) THEN out
    ELSE IF tokens[i].code # None
    THEN Rendered(tokens, i + 1,
                  IF tokens[i].code[1] = <<"0">> THEN {}
                  ELSE active \cup {tokens[i].code[1]},
                  out)
    ELSE Rendered(tokens, i + 1, active,
                  out \o [k \in 1..Len(tokens[i].plain[1]) |->
                             [char |-> tokens[i].plain[1][k], styles |-> active]])

RenderAnsi(s) == Rendered(tokenize_ansi(s).tokens, 1, {}, <<>>)

RenderMarkup(s) == Rendered(tokenize_markup(s).tokens, 1, {}, <<>>)

\* the literal strings of the witnesses
BoldTag == <<"[">> \o NAMES[2] \o <<"]">>

CloseTag == <<"[", "/", "]">>

----------------------------------------------------------------------------
(* C1 *)

\* C1: whenever markup_to_ansi(s, ensure_reset=true) returns, with
\* ensure_optimized true or false, the string it returns ends with the
\* universal reset sequence ESC[0m.
C1_ResetTermination ==
    (pc = "done" /\ op = "markup_to_ansi" /\ flags.ensure_reset
        /\ result.raised = "None")
    => endswith(result.value, reset)

\* the unoptimized conversion of "[bold]a", to which the reset was appended
C1_Witness ==
    /\ pc = "done" /\ op = "markup_to_ansi"
    /\ flags = Flags(TRUE, FALSE)
    /\ text = BoldTag \o <<"a">>
    /\ result = Ok(SGR(<<"1">>) \o <<"a">> \o reset)

----------------------------------------------------------------------------
(* C2 *)

\* C2: optimize_ansi is idempotent: for an ANSI string x of SGR sequences
\* and plain text, optimize_ansi(optimize_ansi(x)) = optimize_ansi(x).
C2_OptimizerIdempotent ==
    (pc = "done" /\ op = "optimize_ansi(optimize_ansi)" /\ SgrText(text))
    => result = first

----------------------------------------------------------------------------
(* C3 *)

\* C3: optimize_ansi does not change the rendered appearance: for an ANSI
\* string x of SGR sequences and plain text, the plain text of
\* optimize_ansi(x) carries the same active style sets as that of x.
C3_OptimizerKeepsAppearance ==
    (pc = "done" /\ op = "optimize_ansi" /\ SgrText(text))
    => /\ result.raised = "None"
       /\ RenderAnsi(result.value) = RenderAnsi(text)

----------------------------------------------------------------------------
(* C4 *)

\* markup whose brackets hold only style names and closers, none of them
\* escaped, and whose plain text holds no bracket and no backslash
IsStyleMarkup(lexed) ==
    /\ lexed.raised = "None"
    /\ \A i \in 1..Len(lexed.tokens) :
        /\ lexed.tokens[i].attribute \in {"STYLE", "CLEAR", "None"}
        /\ lexed.tokens[i].plain # None =>
              \A k \in 1..Len(lexed.tokens[i].plain[1]) :
                  lexed.tokens[i].plain[1][k] \notin {"[", "]", "\\"}

\* C4: for valid markup m with no escaped brackets,
\* ansi_to_markup(markup_to_ansi(m)) with the default arguments denotes the
\* same plain text with the same active style sets as m.  Stated here for
\* the markup of IsStyleMarkup only, a part of what the claim covers.
C4_EffectiveRoundTrip ==
    (pc = "done" /\ op = "ansi_to_markup(markup_to_ansi)"
        /\ flags = Flags(TRUE, TRUE) /\ IsStyleMarkup(tokenize_markup(text)))
    => /\ result.raised = "None"
       /\ RenderMarkup(result.value) = RenderMarkup(text)

----------------------------------------------------------------------------
(* C5 *)

\* C5: tokenize_ansi never yields two adjacent code tokens with equal codes.
C5_Dedup ==
    (pc = "done" /\ op = "tokenize_ansi")
    => \A i \in 1..(Len(result.tokens) - 1) :
           ~ (/\ result.tokens[i].code # None
              /\ result.tokens[i + 1].code = result.tokens[i].code)

\* ESC[1m ESC[1m a: the second ESC[1m was suppressed
C5_Witness ==
    /\ pc = "done" /\ op = "tokenize_ansi"
    /\ text = SGR(<<"1">>) \o SGR(<<"1">>) \o <<"a">>
    /\ Len(result.tokens) = 2
    /\ result.tokens[1].code = Some(<<"1">>)
    /\ result.tokens[2].plain = Some(<<"a">>)

----------------------------------------------------------------------------
(* C6 *)

\* the tokens of a bracket group: those lexed from the span of its match
\* that are not the plain text before or after it
GroupTokens(tokens, match) ==
    {i \in 1..Len(tokens) :
        /\ tokens[i].start = match.start /\ tokens[i].end = match.end
        /\ (tokens[i].code # None \/ tokens[i].attribute # "None")}

\* the tokenizer comes to the k-th match: no bracket before it raises
Reached(matches, k) ==
    \A j \in 1..(k - 1) :
        \/ matches[j].escapes # <<>>
        \/ MarkupTags(0, 0, split_ws(matches[j].tag_text), <<>>).raised = "None"

EscapedGroupsYieldOneToken(tokens, matches) ==
    \A k \in 1..Len(matches) :
        (matches[k].escapes # <<>> /\ Reached(matches, k))
        => /\ Cardinality(GroupTokens(tokens, matches[k])) = 1
           /\ \A i \in GroupTokens(tokens, matches[k]) :
                 /\ tokens[i].plain =
                        Some(<<"[">> \o matches[k].tag_text \o <<"]">>)
                 /\ tokens[i].code = None
                 /\ tokens[i].attribute = "ESCAPED"

\* C6: for every bracket group preceded by one or more backslashes that the
\* tokenizer comes to, tokenize_markup yields exactly one token: a plain
\* token with attribute ESCAPED whose text is the bracket with its "[" and
\* "]" and without the backslashes, and no code token.
C6_EscapePreservation ==
    (pc = "done" /\ op = "tokenize_markup")
    => EscapedGroupsYieldOneToken(result.tokens, TagMatches(text, 0))

\* a\[bold]: the text a, then the bracket as one ESCAPED plain token
C6_Witness ==
    /\ pc = "done" /\ op = "tokenize_markup"
    /\ text = <<"a", "\\">> \o BoldTag
    /\ Len(result.tokens) = 2
    /\ result.tokens[2].plain = Some(BoldTag)
    /\ result.tokens[2].attribute = "ESCAPED"

----------------------------------------------------------------------------
(* C7 *)

\* a word that is no style name, no UNSET_MAP key, no named color (with or
\* without one "@" before it) and no color candidate
Unrecognized(word) ==
    /\ ~ InSeq(word, NAMES)
    /\ ~ InUnsetKeys(word)
    /\ ~ InColorNames(word)
    /\ ~ (startswith(word, <<"@">>) /\ InColorNames(Tail(word)))
    /\ \E i \in 1..Len(word) : word[i] \notin ColorChar

HasUnrecognizedWord(words) == \E i \in 1..Len(words) : Unrecognized(words[i])

HasUnrecognizedTag(matches) ==
    \E k \in 1..Len(matches) :
        /\ matches[k].escapes = <<>>
        /\ HasUnrecognizedWord(split_ws(matches[k].tag_text))

\* C7: if an unescaped bracket of the markup holds a word that is not a
\* style name, not an UNSET_MAP key, not a named color and not a color
\* candidate, tokenize_markup raises the unrecognized-tag SyntaxError, and
\* so does markup_to_ansi, which returns no string.
C7_UnrecognizedTagRaises ==
    (pc = "done" /\ op \in {"tokenize_markup", "markup_to_ansi"}
        /\ HasUnrecognizedTag(TagMatches(text, 0)))
    => result.raised = "SyntaxError"

----------------------------------------------------------------------------
(* C8 *)

\* C8: every code token that tokenize_markup yields has a code made only of
\* decimal digits and ";".
C8_CodesAreSgr ==
    (pc = "done" /\ op = "tokenize_markup")
    => \A i \in 1..Len(result.tokens) :
           result.tokens[i].code # None =>
               \A k \in 1..Len(result.tokens[i].code[1]) :
                   result.tokens[i].code[1][k] \in SgrChar

----------------------------------------------------------------------------
(* C9 *)

HasOscMatch(matches) == \E k \in 1..Len(matches) : matches[k].sgr = None

\* C9: tokenize_ansi completes without error on an input that holds an
\* OSC-style sequence ESC ] params ESC \.
C9_OscPassThrough ==
    (pc = "done" /\ op = "tokenize_ansi" /\ HasOscMatch(AnsiMatches(text, 0)))
    => result.raised = "None"

----------------------------------------------------------------------------
(* C10 *)

----------------------------------------------------------------------------
(* C11 *)

\* the plain text of a token sequence, in order
RECURSIVE PlainTextOf(_)
PlainTextOf(tokens) ==
    IF tokens = <<>> THEN <<>>
    ELSE (IF tokens[1].plain # None THEN tokens[1].plain[1] ELSE <<>>)
         \o PlainTextOf(Tail(tokens))

\* the codes of a token sequence
CodesOf(tokens) ==
    {tokens[i].code[1] : i \in {k \in 1..Len(tokens) : tokens[k].code # None}}

\* what the re-tokenized markup must agree with: the tokens of the ANSI input
TextSurvives(lexed, relexed) ==
    /\ relexed.raised = "None"
    /\ PlainTextOf(relexed.tokens) = PlainTextOf(lexed.tokens)
    /\ CodesOf(relexed.tokens) \subseteq CodesOf(lexed.tokens)

\* C11: the plain text of an ANSI string of SGR sequences and text survives
\* ansi_to_markup as literal text: tokenize_markup of the returned markup
\* yields the same plain text, and no code token that was not a code of the
\* ANSI input (the reset that ensure_reset appends included).
C11_TextSurvives ==
    (pc = "done" /\ op = "tokenize_markup(ansi_to_markup)" /\ SgrText(text))
    => TextSurvives(tokenize_ansi(EnsureReset(flags.ensure_reset, text)), result)

----------------------------------------------------------------------------
(* C12 *)

\* C12: tokenize_markup only yields a token that differs from the previous
\* one: it never yields two code tokens with the same code one after the
\* other, so a bracket that repeats a tag gives one token for it.
C12_MarkupDedup ==
    (pc = "done" /\ op = "tokenize_markup")
    => \A i \in 1..(Len(result.tokens) - 1) :
           (result.tokens[i].code # None /\ result.tokens[i + 1].code # None)
           => result.tokens[i].code # result.tokens[i + 1].code

----------------------------------------------------------------------------
(* C13 *)

\* C13: get_setter inverts get_unsetter on the styles 1..9: the STYLE token
\* of a style has as unsetter the UNSET_MAP value of "/" + name, the token
\* that tokenize_markup yields for the tag "/" + name is a CLEAR token with
\* that code, and its get_setter is the index of the style in NAMES.
C13_SetterInvertsUnsetter ==
    (pc = "done" /\ op = "get_setter(get_unsetter)")
    => /\ first = Ok(Some(UnsetValue(<<"/">> \o TagOf(text))))
       /\ UnsetToken(TagOf(text)).code = first.value
       /\ UnsetToken(TagOf(text)).attribute = "CLEAR"
       /\ result = Ok(Some(str(index(NAMES, TagOf(text)))))

----------------------------------------------------------------------------
(* C14 *)

\* the input starts with a universal reset that plain text follows
ResetThenText(lexed) ==
    /\ lexed.raised = "None"
    /\ Len(lexed.tokens) >= 2
    /\ lexed.tokens[1].code = Some(<<"0">>)
    /\ lexed.tokens[2].plain # None

\* what optimize_ansi returns for an input that starts with a reset and text
NoLeadingReset(lexed, value) ==
    /\ startswith(value, lexed.tokens[2].plain[1])
    /\ ~ startswith(value, reset)
    /\ Len(lexed.tokens) = 2 => value = lexed.tokens[2].plain[1] \o reset

\* C14: a universal reset with nothing before it is a no-op for
\* optimize_ansi: optimize_ansi(ESC[0m) is one reset sequence, and for an
\* input that starts with a reset followed by plain text the output starts
\* with that text, not with a reset; when nothing else follows, the output is
\* the text followed by one reset.
C14_NoOpReset ==
    (pc = "done" /\ op = "optimize_ansi")
    => /\ text = reset => result = Ok(reset)
       /\ ResetThenText(tokenize_ansi(text))
          => /\ result.raised = "None"
             /\ NoLeadingReset(tokenize_ansi(text), result.value)

\* optimize_ansi was called on a reset followed by text
C14_Witness ==
    /\ pc = "done"
    /\ op = "optimize_ansi"
    /\ text = reset \o <<"a">>
    /\ result = Ok(<<"a">> \o reset)

----------------------------------------------------------------------------
(* C17 *)

\* the index of the first plain token from i on, or Len(tokens) + 1
RECURSIVE RunEnd(_, _)
RunEnd(tokens, i) ==
    IF i > Len(tokens) \/ tokens[i].plain # None THEN i
    ELSE RunEnd(tokens, i + 1)

\* the index of the last universal reset of the run i..j-1, or 0
RECURSIVE LastReset(_, _, _)
LastReset(tokens, i, j) ==
    IF j <= i THEN 0
    ELSE IF tokens[j - 1].code = Some(<<"0">>) THEN j - 1
    ELSE LastReset(tokens, i, j - 1)

\* the names of the codes k..j-1, in input order
NamesOfRun(tokens, k, j) == [n \in 1..(j - k) |-> to_name(tokens[k + n - 1]).value]

\* the bracket of the names of a run, after a "/" when closes
BracketOfRun(names, closes) ==
    IF closes THEN Bracket(<<<<"/">>>> \o names)
    ELSE IF names = <<>> THEN <<>>
    ELSE Bracket(names)

\* the bracket of the run i..j-1 whose last reset is at r, out being the
\* output so far
RunBracket(tokens, i, j, r, out) ==
    BracketOfRun(NamesOfRun(tokens, IF r = 0 THEN i ELSE r + 1, j),
                 r # 0 /\ Len(out) > 0)

\* the markup of a token sequence, run by run
RECURSIVE Batched(_, _, _)
BatchedRun(tokens, j, out) ==
    IF j > Len(tokens) THEN out
    ELSE Batched(tokens, j + 1,
                 out \o replace_first(tokens[j].plain[1], "[", <<"\\", "[">>))

BatchedFrom(tokens, i, j, out) ==
    BatchedRun(tokens, j, out \o RunBracket(tokens, i, j, LastReset(tokens, i, j), out))

Batched(tokens, i, out) == BatchedFrom(tokens, i, RunEnd(tokens, i), out)

\* s holds the character c
Holds(s, c) == \E k \in 1..Len(s) : s[k] = c

\* s holds a closing square bracket directly before an opening one
AdjacentBrackets(s) == \E k \in 1..(Len(s) - 1) : s[k] = "]" /\ s[k + 1] = "["

\* C17: ansi_to_markup batches consecutive code tokens into one bracket:
\* each maximal run of code tokens before a plain text, or before the end of
\* the input, gives at most one bracket, which holds the names of the codes
\* after the last universal reset of the run in input order, after a "/" when
\* the run has a reset and the output is not empty; when no text of the input
\* holds a closing square bracket, the output has no two brackets with
\* nothing between them.
C17_Batching ==
    (pc = "done" /\ op = "ansi_to_markup" /\ SgrText(text)
        /\ result.raised = "None")
    => /\ result.value =
              Batched(tokenize_ansi(EnsureReset(flags.ensure_reset, text)).tokens,
                      1, <<>>)
       /\ ~ Holds(PlainTextOf(tokenize_ansi(text).tokens), "]")
          => ~ AdjacentBrackets(result.value)

\* ESC[1m ESC[22m a ESC[0m was converted: the two codes share a bracket
C17_Witness ==
    /\ pc = "done"
    /\ op = "ansi_to_markup"
    /\ text = SGR(<<"1">>) \o SGR(<<"2", "2">>) \o <<"a">> \o SGR(<<"0">>)
    /\ result = Ok(<<"[">> \o NAMES[2] \o <<" ", "/">> \o NAMES[2] \o <<"]", "a">>
                   \o CloseTag)

----------------------------------------------------------------------------
(* C18 *)

\* C18: for an ANSI string x of style codes, unset codes, 8-bit colors,
\* resets and plain text without "[", markup_to_ansi(ansi_to_markup(x),
\* ensure_optimized=false) returns a string with the rendered appearance of
\* x: the same characters, each with the same set of active codes.
C18_AnsiRoundTrip ==
    (pc = "done" /\ op = "markup_to_ansi(ansi_to_markup)" /\ flags.ensure_reset
        /\ SgrText(text)
        /\ ~ Holds(PlainTextOf(tokenize_ansi(text).tokens), "["))
    => /\ result.raised = "None"
       /\ RenderAnsi(result.value) = RenderAnsi(text)

----------------------------------------------------------------------------
(* C19 *)

\* the span of a token is the range of s from which it was lexed
SpanOf(s, token) ==
    /\ 0 <= token.start
    /\ token.start <= token.end
    /\ token.end <= Len(s)
    /\ (token.plain # None /\ token.attribute # "ESCAPED")
       => Slice(s, token.start, token.end) = token.plain[1]

\* C19: the span of every token that tokenize_ansi and tokenize_markup yield
\* is a half-open range of the source, 0 <= start <= end <= len(text), and
\* for a plain token that is not escaped, text[start:end] is its plain text.
C19_Spans ==
    (pc = "done" /\ op \in {"tokenize_ansi", "tokenize_markup"})
    => \A i \in 1..Len(result.tokens) : SpanOf(text, result.tokens[i])

----------------------------------------------------------------------------
(* C15 *)

\* how many items of seq have the given id
CountId(seq, id) == Cardinality({k \in 1..Len(seq) : seq[k].id = id})

\* how many times id is in a sequence of ids
CountOf(ids, id) == Cardinality({k \in 1..Len(ids) : ids[k] = id})

\* what one call of Animator.step must have done with the animation a that
\* was tracked when it started
SteppedOnce(a) ==
    /\ CountOf(calls.stepped, a.id) = 1
    /\ Animation_step(a).finished
       => /\ CountId(_animations, a.id) = 0
          /\ CountId(calls.finish_callback, a.id)
                 = IF a.callbacks[2] # "None" THEN 1 ELSE 0
          /\ \A k \in 1..Len(calls.finish_callback) :
                 calls.finish_callback[k].id = a.id
                 => calls.finish_callback[k].target = a.target
    /\ ~ Animation_step(a).finished
       => /\ CountId(_animations, a.id) = 1
          /\ CountId(calls.finish_callback, a.id) = 0

\* C15: one call of Animator.step steps every animation that is tracked
\* when the call starts exactly once; an animation whose step reports that
\* it finished is removed and its finish callback, when set, is called once
\* with its target; an animation that did not finish stays tracked.
C15_StepsEveryAnimation ==
    calls.op = "step"
    => \A k \in 1..Len(calls.tracked) : SteppedOnce(calls.tracked[k])

----------------------------------------------------------------------------
(* C16 *)

\* the step callback of a was called once for each step of a, with the
\* target of a, whose attribute had been set
StepCallbackCalled(a) ==
    /\ CountId(calls.step_callback, a.id) = CountOf(calls.stepped, a.id)
    /\ \A k \in 1..Len(calls.step_callback) :
           calls.step_callback[k].id = a.id
           => /\ calls.step_callback[k].target = a.target
              /\ calls.step_callback[k].value = Animation_step(a).value

\* C16: the step callback of an animation, when set, is called after every
\* step: each Animation.step, the final one and that of an animation of
\* duration 0 included, calls it once with the target, after the attribute
\* was set.
C16_StepCallbackEveryStep ==
    calls.op = "step"
    => \A k \in 1..Len(calls.tracked) :
           calls.tracked[k].callbacks[1] # "None"
           => StepCallbackCalled(calls.tracked[k])

----------------------------------------------------------------------------
(* C20 *)

\* C20: every animation finishes: with Animator.step called again and
\* again and time advancing, and no animation added from some point on,
\* every tracked animation is removed in the end and is_active becomes and
\* stays false; is_active is true exactly while an animation is tracked.
C20_EveryAnimationFinishes ==
    /\ [](is_active <=> _animations # <<>>)
    /\ <>[](~ is_active)

\* a step removed the last tracked animation, one that took time, after
\* every animation had been added
C20_Witness ==
    /\ calls.op = "step"
    /\ added = MaxAnimate
    /\ ~ is_active
    /\ \E k \in 1..Len(calls.tracked) :
           /\ calls.tracked[k].duration > 0
           /\ calls.tracked[k].start # calls.tracked[k].end
           /\ calls.tracked[k].id \in {calls.finished[n] : n \in 1..Len(calls.finished)}

----------------------------------------------------------------------------
(* C21 *)

\* the plain text of the string that optimize_ansi returned is the plain
\* text of its argument
KeepsPlainText ==
    PlainTextOf(tokenize_ansi(result.value).tokens)
        = PlainTextOf(tokenize_ansi(text).tokens)

====
